---- MODULE Spec2Model ----
(***************************************************************************)
(* TransactionAnalyzer (src/files/index.js): an in-memory, ordered store   *)
(* of transaction records with query and aggregation methods.              *)
(*                                                                         *)
(* The store is the sequence `transactions`.  Every method of the class is *)
(* one action; a query action leaves the store alone and records the value *)
(* it returns in `ret` (or sets `threw` when the call raises).  The        *)
(* JavaScript runtime functions the methods lean on (parseFloat, Date      *)
(* parsing, local-time getters, toLocaleString, double addition and        *)
(* division, Array.prototype.reduce) are modelled by what they compute.    *)
(***************************************************************************)
EXTENDS Integers, Sequences, FiniteSets, TLC

VARIABLES
    transactions,   \* this.transactions: the stored sequence of records
    tz,             \* the host's offset from UTC, in hours (fixed per run)
    op,             \* name of the last method called ("new" after construction)
    args,           \* the arguments of the last call
    ret,            \* the value the last call returned
    threw,          \* TRUE iff the last call raised a TypeError
    initial,        \* history: the sequence handed to the constructor
    added           \* history: the arguments of addTransaction, in call order

vars == <<transactions, tz, op, args, ret, threw, initial, added>>

-----------------------------------------------------------------------------
(* Bounds of the model.                                                    *)

\* longest store explored by the ledger, amount and month specifications
MaxLen == 3
\* longest store explored by the date specification
MaxDateLen == 2
\* longest sequence handed to the constructor
MaxInit == 1

-----------------------------------------------------------------------------
(* JavaScript values.                                                      *)

\* A JavaScript number.  k = "num": the double nearest to
\* (b * 2^53 + s) / d, with s far below 2^53; k = "nan": NaN; k = "inf":
\* +Infinity.  Sums always have d = 1; only a division produces d > 1.
Num(b, s) == [k |-> "num", b |-> b, s |-> s, d |-> 1]
NaN == [k |-> "nan", b |-> 0, s |-> 0, d |-> 1]
Infinity == [k |-> "inf", b |-> 0, s |-> 0, d |-> 1]
Zero == Num(0, 0)

\* An argument as the caller may pass it: omitted, null, or a number.
Undefined == [t |-> "undefined", v |-> 0]
Null == [t |-> "null", v |-> 0]
Number(n) == [t |-> "number", v |-> n]

\* !x for an argument x: undefined, null and 0 are falsy.
Falsy(x) == x.t \in {"undefined", "null"} \/ (x.t = "number" /\ x.v = 0)

\* n === x for a number n computed by the program and an argument x.
StrictEqualsNumber(n, x) == x.t = "number" /\ x.v = n

RECURSIVE Gcd(_, _)
Gcd(a, b) == IF b = 0 THEN a ELSE Gcd(b, a % b)

RECURSIVE Pow2(_)
Pow2(e) == IF e = 0 THEN 1 ELSE 2 * Pow2(e - 1)

\* Number of binary digits of b (0 for b = 0).
RECURSIVE BitLength(_)
BitLength(b) == IF b = 0 THEN 0 ELSE 1 + BitLength(b \div 2)

\* Round the exact integer b * 2^53 + s to the nearest double, ties to even.
\* In [2^(52+e), 2^(53+e)) doubles are the multiples of 2^e, and e is the
\* bit length of b.  b * 2^53 is a multiple of 2^(e+1), so the mantissa is
\* even exactly when s / 2^e is.
RoundToDouble(b, s) ==
    LET q == Pow2(BitLength(b))
        lo == (s \div q) * q
        r == s - lo
    IN  IF r = 0 THEN Num(b, s)
        ELSE IF 2 * r < q THEN Num(b, lo)
        ELSE IF 2 * r > q THEN Num(b, lo + q)
        ELSE IF (lo \div q) % 2 = 0 THEN Num(b, lo)
        ELSE Num(b, lo + q)

\* total + x on doubles (line 46, 64, 125): NaN is absorbing, otherwise the
\* exact sum rounded to the nearest double.
FAdd(x, y) ==
    IF x.k = "nan" \/ y.k = "nan" THEN NaN
    ELSE RoundToDouble(x.b + y.b, x.s + y.s)

\* total / n on doubles (line 106) for a sum `x` and an array length n:
\* NaN / n = NaN, 0 / 0 = NaN, x / 0 = Infinity for x > 0, and otherwise the
\* double nearest to the quotient, kept as the fraction in lowest terms when
\* the dividend is below 2^53.
FDiv(x, n) ==
    IF x.k = "nan" THEN NaN
    ELSE IF n = 0 THEN (IF x.b = 0 /\ x.s = 0 THEN NaN ELSE Infinity)
    ELSE IF x.b = 0
         THEN LET g == Gcd(x.s, n)
              IN  [k |-> "num", b |-> 0, s |-> x.s \div g, d |-> n \div g]
    ELSE [k |-> "num", b |-> x.b, s |-> x.s, d |-> n]

\* parseFloat(t.transaction_amount) on the amount strings of the model:
\* a decimal numeral parses to its value ("150.00" to 150, 2^53 exactly
\* representable), a string with no leading numeral to NaN.
ParseFloat(str) ==
    CASE str = "1" -> Num(0, 1)
      [] str = "50" -> Num(0, 50)
      [] str = "100" -> Num(0, 100)
      [] str = "150.00" -> Num(0, 150)
      [] str = "9007199254740992" -> Num(1, 0)
      [] OTHER -> NaN

-----------------------------------------------------------------------------
(* Dates: new Date(string), the local-time getters and toLocaleString.     *)

\* Days from 1970-01-01 to the proleptic Gregorian date y-m-d.
DaysFromCivil(y, m, d) ==
    LET yy == IF m <= 2 THEN y - 1 ELSE y
        era == yy \div 400
        yoe == yy - era * 400
        mp == IF m > 2 THEN m - 3 ELSE m + 9
        doy == (153 * mp + 2) \div 5 + d - 1
        doe == yoe * 365 + yoe \div 4 - yoe \div 100 + doy
    IN  era * 146097 + doe - 719468

\* The date <<y, m, d>> that lies `days` days after 1970-01-01.
CivilFromDays(days) ==
    LET z == days + 719468
        era == z \div 146097
        doe == z - era * 146097
        yoe == (doe - doe \div 1460 + doe \div 36524 - doe \div 146096) \div 365
        doy == doe - (365 * yoe + yoe \div 4 - yoe \div 100)
        mp == (5 * doy + 2) \div 153
        d == doy - (153 * mp + 2) \div 5 + 1
        m == IF mp < 10 THEN mp + 3 ELSE mp - 9
        y == yoe + era * 400
    IN  <<IF m <= 2 THEN y + 1 ELSE y, m, d>>

\* The year, month and day written in a date-only ISO string
\* ("YYYY-MM-DD"); <<>> for a string that is no date.
IsoFields(str) ==
    CASE str = "2018-12-31" -> <<2018, 12, 31>>
      [] str = "2019-01-01" -> <<2019, 1, 1>>
      [] str = "2019-01-02" -> <<2019, 1, 2>>
      [] str = "2019-02-01" -> <<2019, 2, 1>>
      [] OTHER -> <<>>

\* new Date(str): a date-only ISO string denotes midnight UTC of that day;
\* anything else on the model's strings is an Invalid Date.  The time value
\* is kept in hours since the epoch.
NewDate(str) ==
    LET f == IsoFields(str)
    IN  IF f = <<>> THEN [valid |-> FALSE, t |-> 0]
        ELSE [valid |-> TRUE, t |-> 24 * DaysFromCivil(f[1], f[2], f[3])]

\* The calendar date of a valid Date in the host's time zone.
LocalFields(date) == CivilFromDays((date.t + tz) \div 24)

\* date.getFullYear() === year, date.getMonth() + 1 === month,
\* date.getDate() === day: the getters of an Invalid Date give NaN, which is
\* strictly equal to nothing.
YearIs(date, year) ==
    date.valid /\ StrictEqualsNumber(LocalFields(date)[1], year)
MonthIs(date, month) ==
    date.valid /\ StrictEqualsNumber((LocalFields(date)[2] - 1) + 1, month)
DayIs(date, day) ==
    date.valid /\ StrictEqualsNumber(LocalFields(date)[3], day)

\* a < b on Dates, used where a <= b is meant.
DateLt(a, b) == a.valid /\ b.valid /\ a.t < b.t

\* a >= b and a <= b on Dates compare the time values; a comparison with an
\* Invalid Date (time value NaN) is false.
DateGe(a, b) == a.valid /\ b.valid /\ a.t >= b.t
DateLe(a, b) == a.valid /\ b.valid /\ a.t <= b.t

MonthNames ==
    <<"January", "February", "March", "April", "May", "June", "July",
      "August", "September", "October", "November", "December">>

\* date.toLocaleString('default', {month: 'long', year: 'numeric'}) in an
\* English locale: "January 2019" in the host's time zone, "Invalid Date"
\* for an Invalid Date.
ToLocaleMonthYear(date) ==
    IF ~date.valid THEN "Invalid Date"
    ELSE LET f == LocalFields(date)
         IN  MonthNames[f[2]] \o " " \o ToString(f[1])

-----------------------------------------------------------------------------
(* Array and object helpers.                                               *)

\* array.reduce((total, t) => total + parseFloat(t.transaction_amount), 0)
RECURSIVE SumAmounts(_, _)
SumAmounts(seq, total) ==
    IF seq = <<>> THEN total
    ELSE SumAmounts(Tail(seq), FAdd(total, ParseFloat(Head(seq).transaction_amount)))

\* An object used as a counter is a sequence of [key, n] entries in the order
\* the keys were first assigned (no key of the model is an array index).
HasKey(acc, key) == \E i \in 1..Len(acc) : acc[i].key = key

\* acc[key]: the count stored under key, or undefined.
Lookup(acc, key) ==
    IF HasKey(acc, key)
    THEN [defined |-> TRUE,
          n |-> acc[CHOOSE i \in 1..Len(acc) : acc[i].key = key].n]
    ELSE [defined |-> FALSE, n |-> 0]

\* acc[key] = (acc[key] || 0) + 1
Increment(acc, key) ==
    IF HasKey(acc, key)
    THEN [i \in 1..Len(acc) |->
            IF acc[i].key = key THEN [key |-> key, n |-> acc[i].n + 1]
            ELSE acc[i]]
    ELSE Append(acc, [key |-> key, n |-> 1])

\* x > y on two looked-up counts: undefined converts to NaN and every
\* comparison with NaN is false.
GreaterThan(x, y) == x.defined /\ y.defined /\ x.n > y.n

\* Object.keys(count)
RECURSIVE ObjectKeys(_)
ObjectKeys(acc) ==
    IF acc = <<>> THEN <<>> ELSE <<Head(acc).key>> \o ObjectKeys(Tail(acc))

-----------------------------------------------------------------------------
(* The methods of TransactionAnalyzer, as functions of this.transactions.  *)

getAllTransaction(txs) == txs

\* Array.from(new Set(txs.map(t => t.transaction_type))): the distinct types
\* in the order of their first occurrence.
RECURSIVE getUniqueTransactionType(_)
getUniqueTransactionType(txs) ==
    IF txs = <<>> THEN <<>>
    ELSE LET front == getUniqueTransactionType(SubSeq(txs, 1, Len(txs) - 1))
             type == txs[Len(txs)].transaction_type
         IN  IF \E i \in 1..Len(front) : front[i] = type THEN front
             ELSE Append(front, type)

calculateTotalAmount(txs) == SumAmounts(txs, Zero)

calculateTotalAmountByDate(txs, year, month, day) ==
    LET Test(t) ==
            LET date == NewDate(t.transaction_date)
            IN  /\ (Falsy(year) \/ YearIs(date, year))
                /\ (Falsy(month) \/ MonthIs(date, month))
                /\ (Falsy(day) \/ DayIs(date, day))
    IN  SumAmounts(SelectSeq(txs, Test), Zero)

\* A filter by type that starts at the second record.
getTransactionByTypeSkipFirst(txs, type) ==
    LET Test(t) == t.transaction_type = type
    IN  IF txs = <<>> THEN <<>> ELSE SelectSeq(Tail(txs), Test)

getTransactionByType(txs, type) ==
    LET Test(t) == t.transaction_type = type
    IN  SelectSeq(txs, Test)

getTransactionsInDateRange(txs, startDate, endDate) ==
    LET start == NewDate(startDate)
        end == NewDate(endDate)
        Test(t) ==
            LET date == NewDate(t.transaction_date)
            IN  DateGe(date, start) /\ DateLe(date, end)
    IN  SelectSeq(txs, Test)

\* An average that answers 0 for the empty store.
calculateAverageOrZero(txs) ==
    IF txs = <<>> THEN Zero ELSE FDiv(SumAmounts(txs, Zero), Len(txs))

calculateAverageTransactionAmount(txs) ==
    LET total == calculateTotalAmount(txs)
    IN  FDiv(total, Len(txs))

\* A debit total that sums the credit records.
calculateTotalCreditAmount(txs) ==
    LET Test(t) == t.transaction_type = "credit"
    IN  SumAmounts(SelectSeq(txs, Test), Zero)

calculateTotalDebitAmount(txs) ==
    SumAmounts(getTransactionByType(txs, "debit"), Zero)

\* reduce((acc, t) => { acc[month] = (acc[month] || 0) + 1; return acc }, {})
RECURSIVE CountByMonth(_, _)
CountByMonth(seq, acc) ==
    IF seq = <<>> THEN acc
    ELSE LET month == ToLocaleMonthYear(NewDate(Head(seq).transaction_date))
         IN  CountByMonth(Tail(seq), Increment(acc, month))

\* (a, b) => count[a] >= count[b] ? a : b
KeepGreaterOrEqual(count, a, b) ==
    IF ~GreaterThan(Lookup(count, b), Lookup(count, a)) THEN a ELSE b

\* (a, b) => count[a] > count[b] ? a : b
KeepGreater(count, a, b) ==
    IF GreaterThan(Lookup(count, a), Lookup(count, b)) THEN a ELSE b

\* keys.reduce((a, b) => ...) with the accumulator a already chosen
RECURSIVE ReduceKeys(_, _, _)
ReduceKeys(count, a, keys) ==
    IF keys = <<>> THEN a
    ELSE ReduceKeys(count, KeepGreater(count, a, Head(keys)), Tail(keys))

\* Object.keys(count).reduce(...) with no initial value: a TypeError on no
\* keys, otherwise the fold starts from the first key.
MostFrequentKey(count) ==
    LET keys == ObjectKeys(count)
    IN  IF keys = <<>> THEN [threw |-> TRUE, value |-> ""]
        ELSE [threw |-> FALSE, value |-> ReduceKeys(count, Head(keys), Tail(keys))]

findMostTransactionsMonth(txs) == MostFrequentKey(CountByMonth(txs, <<>>))

\* A debit month that forgets to filter.
findMostDebitUnfiltered(txs) == MostFrequentKey(CountByMonth(txs, <<>>))

findMostDebitTransactionMonth(txs) ==
    MostFrequentKey(CountByMonth(getTransactionByType(txs, "debit"), <<>>))

\* reduce((acc, t) => { acc[type] = (acc[type] || 0) + 1; return acc }, {})
RECURSIVE CountByType(_, _)
CountByType(seq, acc) ==
    IF seq = <<>> THEN acc
    ELSE CountByType(Tail(seq), Increment(acc, Head(seq).transaction_type))

mostTransactionTypes(txs) ==
    LET count == CountByType(txs, <<>>)
        debit == Lookup(count, "debit")
        credit == Lookup(count, "credit")
    IN  IF GreaterThan(debit, credit) THEN "debit"
        ELSE IF GreaterThan(credit, debit) THEN "credit"
        ELSE "equal"

\* A find that scans from the end (findLast).
RECURSIVE FindFromEnd(_, _, _)
FindFromEnd(txs, i, id) ==
    LET j == Len(txs) + 1 - i
    IN  IF j < 1 THEN 0
        ELSE IF txs[j].transaction_id = id THEN j
        ELSE FindFromEnd(txs, i + 1, id)

\* txs.find(t => t.transaction_id === id): the index of the first record
\* whose id is strictly equal to id, scanning from i; 0 when there is none.
RECURSIVE Find(_, _, _)
Find(txs, i, id) ==
    IF i > Len(txs) THEN 0
    ELSE IF txs[i].transaction_id = id THEN i
    ELSE Find(txs, i + 1, id)

\* The object stored at index i of this.transactions, as a reference.
Object(i) == [t |-> "object", v |-> i]

\* txs.find(...) || null: a found record is an object, hence truthy.
findTransactionById(txs, id) ==
    LET i == Find(txs, 1, id)
    IN  IF i = 0 THEN Null ELSE Object(i)

-----------------------------------------------------------------------------
(* Inputs.                                                                 *)

\* Offsets from UTC of the hosts explored: west of, at and east of Greenwich.
TimeZones == {-5, 0, 3}

\* Records of the ledger specification: ids and types vary.
LedgerPool ==
    [transaction_id : {"1", "2"},
     transaction_date : {"2019-01-01"},
     transaction_amount : {"100"},
     transaction_type : {"debit", "credit", "transfer"}]

\* Records of the amount specification: amounts and types vary.
AmountPool ==
    [transaction_id : {"1"},
     transaction_date : {"2019-01-01"},
     transaction_amount : {"1", "150.00", "9007199254740992", "n/a"},
     transaction_type : {"debit", "credit"}]

\* Records of the date specification: dates and amounts vary.
DatePool ==
    [transaction_id : {"1"},
     transaction_date : {"2018-12-31", "2019-01-01", "2019-01-02", "soon"},
     transaction_amount : {"100", "50"},
     transaction_type : {"debit"}]

\* Records of the range specification: dates vary.
RangePool ==
    [transaction_id : {"1"},
     transaction_date : {"2018-12-31", "2019-01-01", "2019-01-02", "soon"},
     transaction_amount : {"100"},
     transaction_type : {"debit"}]

\* Records of the month specification: dates and types vary.
MonthPool ==
    [transaction_id : {"1"},
     transaction_date : {"2018-12-31", "2019-01-01", "2019-02-01", "soon"},
     transaction_amount : {"100"},
     transaction_type : {"debit", "credit"}]

Ids == {"1", "2", "12345"}
Types == {"debit", "credit", "transfer", "refund"}
DateStrings == {"2018-12-31", "2019-01-01", "2019-01-02", "soon"}
Years == {Undefined, Null, Number(0), Number(2019)}
Months == {Undefined, Number(1), Number(12)}
Days == {Undefined, Number(1), Number(31)}

\* The sequences over pool of length at most n.
SeqsUpTo(pool, n) == UNION {[1..k -> pool] : k \in 0..n}

-----------------------------------------------------------------------------
(* Construction and the calls.                                             *)

\* constructor(transactions): this.transactions = transactions
Constructed(pool) ==
    /\ initial \in SeqsUpTo(pool, MaxInit)
    /\ transactions = initial
    /\ tz \in TimeZones
    /\ op = "new"
    /\ args = <<>>
    /\ ret = Undefined
    /\ threw = FALSE
    /\ added = <<>>

\* A push that puts the record in front (unshift).
PushFront(txs, transaction) == <<transaction>> \o txs

\* this.transactions.push(transaction)
Push(txs, transaction) == Append(txs, transaction)

AddTransaction(pool, maxLen) ==
    /\ Len(transactions) < maxLen
    /\ \E transaction \in pool :
        /\ transactions' = Push(transactions, transaction)
        /\ added' = Append(added, transaction)
        /\ args' = <<transaction>>
    /\ op' = "addTransaction"
    /\ ret' = Undefined
    /\ threw' = FALSE
    /\ UNCHANGED <<tz, initial>>

\* A method that only reads this.transactions and returns value.
Returns(name, a, value) ==
    /\ op' = name
    /\ args' = a
    /\ ret' = value
    /\ threw' = FALSE
    /\ UNCHANGED <<transactions, tz, initial, added>>

\* A method that only reads this.transactions and either raises or returns.
ReturnsOrThrows(name, a, result) ==
    /\ op' = name
    /\ args' = a
    /\ ret' = result.value
    /\ threw' = result.threw
    /\ UNCHANGED <<transactions, tz, initial, added>>

GetAllTransaction ==
    Returns("getAllTransaction", <<>>, getAllTransaction(transactions))

GetUniqueTransactionType ==
    Returns("getUniqueTransactionType", <<>>,
            getUniqueTransactionType(transactions))

CalculateTotalAmount ==
    Returns("calculateTotalAmount", <<>>, calculateTotalAmount(transactions))

CalculateTotalAmountByDate ==
    \E year \in Years, month \in Months, day \in Days :
        Returns("calculateTotalAmountByDate", <<year, month, day>>,
                calculateTotalAmountByDate(transactions, year, month, day))

GetTransactionByType ==
    \E type \in Types :
        Returns("getTransactionByType", <<type>>,
                getTransactionByType(transactions, type))

GetTransactionsInDateRange ==
    \E startDate \in DateStrings, endDate \in DateStrings :
        Returns("getTransactionsInDateRange", <<startDate, endDate>>,
                getTransactionsInDateRange(transactions, startDate, endDate))

CalculateAverageTransactionAmount ==
    Returns("calculateAverageTransactionAmount", <<>>,
            calculateAverageTransactionAmount(transactions))

CalculateTotalDebitAmount ==
    Returns("calculateTotalDebitAmount", <<>>,
            calculateTotalDebitAmount(transactions))

FindMostTransactionsMonth ==
    ReturnsOrThrows("findMostTransactionsMonth", <<>>,
                    findMostTransactionsMonth(transactions))

FindMostDebitTransactionMonth ==
    ReturnsOrThrows("findMostDebitTransactionMonth", <<>>,
                    findMostDebitTransactionMonth(transactions))

MostTransactionTypes ==
    Returns("mostTransactionTypes", <<>>, mostTransactionTypes(transactions))

FindTransactionById ==
    \E id \in Ids :
        Returns("findTransactionById", <<id>>,
                findTransactionById(transactions, id))

-----------------------------------------------------------------------------
(* Specifications.                                                         *)

\* The ledger: ids and types.
Init == Constructed(LedgerPool)

Next ==
    \/ AddTransaction(LedgerPool, MaxLen)
    \/ GetAllTransaction
    \/ GetUniqueTransactionType
    \/ GetTransactionByType
    \/ MostTransactionTypes
    \/ FindTransactionById

Spec == Init /\ [][Next]_vars

\* Amounts: totals and the average.
InitAmount == Constructed(AmountPool)

NextAmount ==
    \/ AddTransaction(AmountPool, MaxLen)
    \/ CalculateTotalAmount
    \/ CalculateTotalDebitAmount
    \/ CalculateAverageTransactionAmount

SpecAmount == InitAmount /\ [][NextAmount]_vars

\* Dates: totals by date.
InitDate == Constructed(DatePool)

NextDate ==
    \/ AddTransaction(DatePool, MaxDateLen)
    \/ CalculateTotalAmountByDate

SpecDate == InitDate /\ [][NextDate]_vars

\* Date ranges.
InitRange == Constructed(RangePool)

NextRange ==
    \/ AddTransaction(RangePool, MaxLen)
    \/ GetTransactionsInDateRange

SpecRange == InitRange /\ [][NextRange]_vars

\* Months: the month with the most transactions.
InitMonth == Constructed(MonthPool)

NextMonth ==
    \/ AddTransaction(MonthPool, MaxLen)
    \/ FindMostTransactionsMonth
    \/ FindMostDebitTransactionMonth

SpecMonth == InitMonth /\ [][NextMonth]_vars

-----------------------------------------------------------------------------
(* Helpers of the properties.                                              *)

\* The records of txs at the indices in I, in store order.
RecordsAt(txs, I) ==
    [k \in 1..Cardinality(I) |->
        txs[CHOOSE i \in I : Cardinality({j \in I : j <= i}) = k]]

Min(S) == CHOOSE x \in S : \A y \in S : x <= y

\* Number of records of txs whose type is type.
CountOfType(txs, type) ==
    Cardinality({i \in 1..Len(txs) : txs[i].transaction_type = type})

RECURSIVE SumLen(_, _)
SumLen(txs, types) ==
    IF types = <<>> THEN 0
    ELSE Len(getTransactionByType(txs, Head(types))) + SumLen(txs, Tail(types))

-----------------------------------------------------------------------------
(* Properties of the ledger specification (Spec).                          *)

\* C1: the store is append-only.  In every reachable state the stored
\* sequence is the constructor's sequence followed by the added records in
\* call order; an addTransaction(t) step lengthens the store by exactly one,
\* makes t its last element and keeps the earlier elements in place; every
\* other step leaves the store as it was.
C1_AppendOnly ==
    /\ [](transactions = initial \o added)
    /\ [][IF op' = "addTransaction"
          THEN /\ Len(transactions') = Len(transactions) + 1
               /\ transactions'[Len(transactions')] = args'[1]
               /\ SubSeq(transactions', 1, Len(transactions)) = transactions
          ELSE transactions' = transactions]_vars

\* A non-empty constructed store to which two different records were added.
C1_Witness ==
    /\ op = "addTransaction"
    /\ Len(initial) > 0
    /\ Len(added) >= 2
    /\ added[1] # added[2]
    /\ initial[1] # added[2]

\* C2: mostTransactionTypes() returns "debit" when debit records strictly
\* outnumber credit records, "credit" when credit records strictly outnumber
\* debit records, and "equal" only when the two counts are equal, also when
\* one of the two types has no record at all.
C2_MostTransactionTypes ==
    op = "mostTransactionTypes" =>
        LET debit == CountOfType(transactions, "debit")
            credit == CountOfType(transactions, "credit")
        IN  ret = IF debit > credit THEN "debit"
                  ELSE IF credit > debit THEN "credit"
                  ELSE "equal"

\* C4: findTransactionById(id) returns the record at the lowest index whose
\* transaction_id equals id, and null, without raising, when there is none.
C4_FindTransactionById ==
    op = "findTransactionById" =>
        LET Matches(t) == t.transaction_id = args[1]
            I == {i \in 1..Len(transactions) : Matches(transactions[i])}
        IN  /\ ~threw
            /\ IF I = {} THEN ret = Null ELSE ret = Object(Min(I))

\* The id looked up occurs twice, first at index 2, and the later occurrence
\* was appended by addTransaction.
C4_Witness ==
    /\ op = "findTransactionById"
    /\ Len(transactions) = 3
    /\ Len(added) >= 1
    /\ transactions[1].transaction_id # args[1]
    /\ transactions[2].transaction_id = args[1]
    /\ transactions[3].transaction_id = args[1]
    /\ ret = Object(2)

\* C5: getTransactionByType(t) returns, in store order, exactly the records
\* whose type is t; over the types getUniqueTransactionType() returns, these
\* results partition the store: the returned types are distinct, every
\* stored record lies in the result of exactly one of them, and the results'
\* lengths add up to the length of the store.
C5_TypePartition ==
    /\ op = "getTransactionByType" =>
        LET IsType(t) == t.transaction_type = args[1]
        IN  ret = RecordsAt(transactions,
                        {i \in 1..Len(transactions) : IsType(transactions[i])})
    /\ op = "getUniqueTransactionType" =>
        /\ \A j, k \in 1..Len(ret) : ret[j] = ret[k] => j = k
        /\ \A i \in 1..Len(transactions) :
            Cardinality({k \in 1..Len(ret) :
                \E m \in 1..Len(getTransactionByType(transactions, ret[k])) :
                    getTransactionByType(transactions, ret[k])[m]
                        = transactions[i]}) = 1
        /\ SumLen(transactions, ret) = Len(transactions)

\* Three types are stored, one of them twice with another type in between.
C5_Witness ==
    /\ op = "getUniqueTransactionType"
    /\ Len(ret) = 2
    /\ Len(transactions) = 3
    /\ transactions[1].transaction_type = transactions[3].transaction_type
    /\ transactions[1].transaction_type # transactions[2].transaction_type

-----------------------------------------------------------------------------
(* Properties of the amount specification (SpecAmount).                    *)

\* The sum, from 0 and in store order, of the amounts of the records whose
\* type is not "debit".
SumNonDebit(txs) ==
    LET NotDebit(t) == t.transaction_type # "debit"
    IN  SumAmounts(SelectSeq(txs, NotDebit), Zero)

\* Every amount of txs parses to an integer below 2^53, so that (the store
\* being short) every sum of amounts is exact.
ExactAmounts(txs) ==
    \A i \in 1..Len(txs) :
        LET x == ParseFloat(txs[i].transaction_amount)
        IN  x.k = "num" /\ x.b = 0

\* C8, as claimed: for every store calculateTotalAmount() equals
\* calculateTotalDebitAmount() plus the sum of the amounts of the records
\* that are not debits, and both totals are 0 for the empty store.
C8_TotalIsDebitPlusRest ==
    op = "calculateTotalAmount" =>
        /\ ret = FAdd(calculateTotalDebitAmount(transactions),
                      SumNonDebit(transactions))
        /\ transactions = <<>> =>
            ret = Zero /\ calculateTotalDebitAmount(transactions) = Zero

\* C8, amended: the same equation for every store whose amounts all parse
\* to integers small enough that no addition rounds; both totals are 0 for
\* the empty store.
C8_TotalIsDebitPlusRestExact ==
    (op = "calculateTotalAmount" /\ ExactAmounts(transactions)) =>
        /\ ret = FAdd(calculateTotalDebitAmount(transactions),
                      SumNonDebit(transactions))
        /\ transactions = <<>> =>
            ret = Zero /\ calculateTotalDebitAmount(transactions) = Zero

\* A credit between two debits of different exact amounts.
C8_Witness ==
    /\ op = "calculateTotalAmount"
    /\ ExactAmounts(transactions)
    /\ Len(transactions) = 3
    /\ transactions[1].transaction_type = "debit"
    /\ transactions[2].transaction_type = "credit"
    /\ transactions[3].transaction_type = "debit"
    /\ transactions[1].transaction_amount # transactions[3].transaction_amount
    /\ ret = Num(0, 152)

\* C9: calculateAverageTransactionAmount() returns calculateTotalAmount()
\* divided by the number of records for a non-empty store, and NaN for the
\* empty store, as a value: it does not raise and leaves the store alone.
C9_Average ==
    op = "calculateAverageTransactionAmount" =>
        LET total == calculateTotalAmount(transactions)
            count == Len(transactions)
        IN  /\ ~threw
            /\ transactions = initial \o added
            /\ IF count = 0 \/ total.k = "nan" THEN ret = NaN
               ELSE /\ ret.k = "num"
                    /\ ret.b * count = total.b * ret.d
                    /\ ret.s * count = total.s * ret.d

\* The average of the empty store was asked for.
C9_Witness ==
    /\ op = "calculateAverageTransactionAmount"
    /\ transactions = <<>>
    /\ ret = NaN
    /\ ~threw

-----------------------------------------------------------------------------
(* Properties of the date and range specifications (SpecDate, SpecRange).  *)

\* The date a record's date string names, as the number yyyymmdd.
DateKey(f) == f[1] * 10000 + f[2] * 100 + f[3]

\* The date written in the record matches every supplied (truthy) component.
MatchesWrittenDate(t, year, month, day) ==
    LET f == IsoFields(t.transaction_date)
        Agrees(c, i) == Falsy(c) \/ (f # <<>> /\ c = Number(f[i]))
    IN  Agrees(year, 1) /\ Agrees(month, 2) /\ Agrees(day, 3)

\* C6: calculateTotalAmountByDate(year, month, day) returns the sum of the
\* amounts of exactly the records whose date matches every supplied
\* component, months counted from 1; an omitted, null or 0 component matches
\* every record, so the call with no component equals calculateTotalAmount();
\* the result is 0 when no record matches.
C6_TotalAmountByDate ==
    op = "calculateTotalAmountByDate" =>
        LET Matches(t) == MatchesWrittenDate(t, args[1], args[2], args[3])
            matching == SelectSeq(transactions, Matches)
        IN  /\ ret = SumAmounts(matching, Zero)
            /\ matching = <<>> => ret = Zero
            /\ (Falsy(args[1]) /\ Falsy(args[2]) /\ Falsy(args[3])) =>
                ret = calculateTotalAmount(transactions)

\* C7: getTransactionsInDateRange(start, end) returns, in store order,
\* exactly the records dated d with start <= d <= end, both ends included;
\* a record whose date cannot be parsed is never returned, and the call does
\* not raise.
C7_DateRange ==
    op = "getTransactionsInDateRange" =>
        LET start == IsoFields(args[1])
            end == IsoFields(args[2])
            InRange(t) ==
                LET d == IsoFields(t.transaction_date)
                IN  /\ d # <<>> /\ start # <<>> /\ end # <<>>
                    /\ DateKey(start) <= DateKey(d)
                    /\ DateKey(d) <= DateKey(end)
        IN  /\ ~threw
            /\ ret = RecordsAt(transactions,
                        {i \in 1..Len(transactions) : InRange(transactions[i])})
            /\ \A k \in 1..Len(ret) : IsoFields(ret[k].transaction_date) # <<>>

\* A record dated start, one that cannot be parsed, and one dated end: the
\* first and the last are returned.
C7_Witness ==
    /\ op = "getTransactionsInDateRange"
    /\ Len(transactions) = 3
    /\ args[1] # args[2]
    /\ transactions[1].transaction_date = args[1]
    /\ transactions[2].transaction_date = "soon"
    /\ transactions[3].transaction_date = args[2]
    /\ ret = <<transactions[1], transactions[3]>>

-----------------------------------------------------------------------------
(* Properties of the month specification (SpecMonth).                      *)

\* The month label the program gives a record.
LabelOf(t) == ToLocaleMonthYear(NewDate(t.transaction_date))

\* The labels of the records of txs.
Labels(txs) == {LabelOf(txs[i]) : i \in 1..Len(txs)}

\* Number of records of txs with the label.
CountOfLabel(txs, label) ==
    Cardinality({i \in 1..Len(txs) : LabelOf(txs[i]) = label})

\* Index of the first record of txs with the label.
FirstSeen(txs, label) == Min({i \in 1..Len(txs) : LabelOf(txs[i]) = label})

\* The labels of txs with the highest count.
TopLabels(txs) ==
    {l \in Labels(txs) :
        \A m \in Labels(txs) : CountOfLabel(txs, m) <= CountOfLabel(txs, l)}

\* C3, as claimed: on a non-empty store findMostTransactionsMonth() returns
\* a label of highest count, and among the labels tied for the highest
\* count the one first seen earliest in store order.
C3_FirstSeenWinsTies ==
    (op = "findMostTransactionsMonth" /\ transactions # <<>>) =>
        /\ ~threw
        /\ ret \in TopLabels(transactions)
        /\ \A l \in TopLabels(transactions) :
            FirstSeen(transactions, ret) <= FirstSeen(transactions, l)

\* C3, amended: on a non-empty store findMostTransactionsMonth() returns a
\* label of highest count, and among the labels tied for the highest count
\* the one first seen latest in store order.
C3_LastSeenWinsTies ==
    (op = "findMostTransactionsMonth" /\ transactions # <<>>) =>
        /\ ~threw
        /\ ret \in TopLabels(transactions)
        /\ \A l \in TopLabels(transactions) :
            FirstSeen(transactions, l) <= FirstSeen(transactions, ret)

\* Three records of three different months, all parseable: every label is
\* tied for the highest count and the month of the last record is returned.
C3_Witness ==
    /\ op = "findMostTransactionsMonth"
    /\ ~threw
    /\ Len(transactions) = 3
    /\ "Invalid Date" \notin Labels(transactions)
    /\ Cardinality(TopLabels(transactions)) = 3
    /\ ret = LabelOf(transactions[3])

\* C10: findMostTransactionsMonth() raises exactly when the store is empty;
\* findMostDebitTransactionMonth() raises exactly when the store holds no
\* debit record; otherwise each returns a label, the debit variant the one
\* findMostTransactionsMonth() gives for the subsequence of debit records;
\* a call that raises leaves the store as it was.
C10_MonthErrors ==
    LET IsDebit(t) == t.transaction_type = "debit"
        debits == SelectSeq(transactions, IsDebit)
    IN  /\ op = "findMostTransactionsMonth" =>
            /\ threw <=> transactions = <<>>
            /\ ~threw => ret \in Labels(transactions)
            /\ transactions = initial \o added
        /\ op = "findMostDebitTransactionMonth" =>
            /\ threw <=> debits = <<>>
            /\ ~threw => /\ ret \in Labels(debits)
                         /\ ret = findMostTransactionsMonth(debits).value
            /\ transactions = initial \o added

\* The debit variant raised on a store that holds credit records only.
C10_Witness ==
    /\ op = "findMostDebitTransactionMonth"
    /\ threw
    /\ Len(transactions) >= 2
    /\ \A i \in 1..Len(transactions) :
        transactions[i].transaction_type = "credit"

====
